---------------------------- MODULE Spec2Model ----------------------------
(***************************************************************************)
(* A model of src/backend/nabuedit.py: the entropy source                  *)
(* (fetch_quantum_key), the counter-mode cipher requests (encrypt_audio,   *)
(* decrypt_audio) and the recording session (start_recording,              *)
(* stop_recording, recorder_thread, audio_recorder_callback).              *)
(*                                                                         *)
(* Byte strings are sequences of integers in 0..255.  Hex strings are      *)
(* sequences of digit values 0..15; the value BadDigit stands for any      *)
(* character that is not a hex digit.                                      *)
(*                                                                         *)
(* The module has one set of variables and several specifications, one per *)
(* component; a specification leaves the other components' variables       *)
(* unchanged:                                                              *)
(*   SpecFetch    calls of fetch_quantum_key with any size and retries     *)
(*   SpecCipher   encrypt_audio and decrypt_audio requests, served one at  *)
(*                a time (the two handlers share no state)                 *)
(*   SpecSession  start/stop requests served one at a time, with the       *)
(*                recorder threads and their callbacks running beside them *)
(*   SpecSessionC the same with requests served concurrently               *)
(***************************************************************************)
EXTENDS Integers, Sequences, FiniteSets, TLC

(***************************************************************************)
(* Bounds of the model.                                                    *)
(***************************************************************************)
\* the largest `retries` a direct call of fetch_quantum_key is given
MaxRetries == 3
\* how many calls of fetch_quantum_key one behaviour makes
MaxFetches == 2
\* the longest plaintext, in cipher blocks
MaxPlainBlocks == 2
\* request threads of the server
MaxHandlers == 2
\* start requests (so recorder threads) in one behaviour
MaxStarts == 2
\* stop requests in one behaviour
MaxStops == 2
\* chunks the audio streams deliver in one behaviour
MaxChunks == 3
\* frames of one chunk
FramesPerChunk == 2
\* the largest number of samples a metadata shape declares
MaxSamples == 3
\* legacy requests (record-only, encrypt, decrypt) made beside a session
MaxLegacy == 1
\* chunks the device delivers while legacy requests are made
LegacyChunks == 1

(***************************************************************************)
(* Program constants.                                                      *)
(***************************************************************************)
\* fetch_quantum_key(size=32, ...), and the size encrypt_audio asks for
KeySize == 32
\* fetch_quantum_key(..., retries=3)
DefaultRetries == 3
\* fetch_quantum_key(4) in visualize_hopping
SeedSize == 4
SAMPLE_RATE == 44100

Byte == 0..255

\* n copies of v
Rep(n, v) == [i \in 1..n |-> v]

(***************************************************************************)
(* EntropySource: fetch_quantum_key                                        *)
(***************************************************************************)
VARIABLES
  f_pc,        \* "idle", "loop" (in the for loop), "returned", "raised"
  f_caller,    \* who called: "direct", "encrypt"
  f_size, f_retries,   \* the arguments
  f_attempt,   \* the loop variable `attempt`: attempts finished so far
  f_result,    \* the byte string returned
  f_source,    \* "none", "remote" (line 52), "local" (line 61)
  f_accepted,  \* the response the returned key was taken from
  n_fetch,     \* calls made so far in this behaviour
  n_urandom    \* calls of os.urandom so far

fetchVars == <<f_pc, f_caller, f_size, f_retries, f_attempt, f_result,
               f_source, f_accepted, n_fetch, n_urandom>>

\* the sizes a direct caller asks for
FetchSizes == {0, 1, SeedSize, 16, KeySize}
\* the number of values a response's data holds
DataLens == {0, SeedSize, 16, KeySize}
\* the values it holds: 256 is not a uint8
DataVals == {7, 256}

NoResponse == [kind |-> "none", data |-> <<>>]

\* What the remote endpoint may do on one attempt:
\*   neterr    requests.get raises                       (line 45)
\*   httperr   raise_for_status raises                   (line 46)
\*   badjson   response.json() raises                    (line 47)
\*   nokey     the JSON lacks 'success' or 'data'        (lines 49, 50)
\*   failflag  {'success': false}                        (line 53)
\*   success   {'success': true, 'data': data}
Responses ==
  [kind : {"neterr", "httperr", "badjson", "nokey", "failflag"}, data : {<<>>}]
  \cup [kind : {"success"}, data : {Rep(n, v) : n \in DataLens, v \in DataVals}]

\* bytes(data['data']) raises ValueError unless every value is in range(256)
BytesRaises(data) == \E i \in DOMAIN data : data[i] \notin Byte

\* One pass of the loop body, lines 43-56: "accept" is the return of line 52,
\* "failed" the fall through to the next iteration, "raise" an exception
\* leaving the function.  Every exception of the body is raised inside the
\* try and caught by `except Exception`.
AttemptOutcome_Uncaught(resp) ==
  IF resp.kind \in {"neterr", "httperr", "badjson", "nokey"} THEN "raise"
  ELSE IF resp.kind = "failflag" THEN "failed"
  ELSE IF BytesRaises(resp.data) THEN "raise"
  ELSE "accept"

AttemptOutcome(resp) ==
  IF resp.kind \in {"neterr", "httperr", "badjson", "nokey"} THEN "failed"
  ELSE IF resp.kind = "failflag" THEN "failed"
  ELSE IF BytesRaises(resp.data) THEN "failed"
  ELSE "accept"

\* bytes(data['data']), line 50: one byte per value of the list, of that
\* value (BytesRaises says when it raises)
AcceptedBytes_Zeros(data) == [i \in 1..Len(data) |-> 0]

AcceptedBytes(data) == [i \in 1..Len(data) |-> data[i]]

\* os.urandom(size): size bytes, fresh on every call (the k-th call's bytes
\* differ from every other call's when size > 0)
Urandom(size, k) == [i \in 1..size |-> (k * 31 + i * 7 + 1) % 256]

FetchEnter(caller, size, retries) ==
  /\ f_pc = "idle"
  /\ n_fetch < MaxFetches
  /\ f_pc' = "loop"
  /\ f_caller' = caller
  /\ f_size' = size
  /\ f_retries' = retries
  /\ f_attempt' = 0
  /\ f_result' = <<>>
  /\ f_source' = "none"
  /\ f_accepted' = NoResponse
  /\ n_fetch' = n_fetch + 1
  /\ UNCHANGED n_urandom

\* lines 42-56: one iteration of `for attempt in range(retries)`
FetchAttemptStep(resp) ==
  /\ f_pc = "loop"
  /\ f_attempt < f_retries
  /\ LET out == AttemptOutcome(resp) IN
       /\ f_pc' = CASE out = "accept" -> "returned"
                    [] out = "raise"  -> "raised"
                    [] OTHER          -> "loop"
       /\ f_result' = IF out = "accept" THEN AcceptedBytes(resp.data) ELSE f_result
       /\ f_source' = IF out = "accept" THEN "remote" ELSE f_source
       /\ f_accepted' = IF out = "accept" THEN resp ELSE f_accepted
  /\ f_attempt' = f_attempt + 1
  /\ UNCHANGED <<f_caller, f_size, f_retries, n_fetch, n_urandom>>

FetchAttempt == \E resp \in Responses : FetchAttemptStep(resp)

\* lines 58-61: the loop is over and nothing was returned
FetchFallback ==
  /\ f_pc = "loop"
  /\ f_attempt >= f_retries
  /\ f_pc' = "returned"
  /\ f_result' = Urandom(f_size, n_urandom)
  /\ f_source' = "local"
  /\ n_urandom' = n_urandom + 1
  /\ UNCHANGED <<f_caller, f_size, f_retries, f_attempt, f_accepted, n_fetch>>

\* the caller takes the result (or the exception); the call's locals are gone
FetchLeave ==
  /\ f_pc' = "idle"
  /\ f_caller' = "direct"
  /\ f_size' = 0
  /\ f_retries' = 0
  /\ f_attempt' = 0
  /\ f_result' = <<>>
  /\ f_source' = "none"
  /\ f_accepted' = NoResponse
  /\ UNCHANGED <<n_fetch, n_urandom>>

InitFetchVars ==
  /\ f_pc = "idle"
  /\ f_caller = "direct"
  /\ f_size = 0
  /\ f_retries = 0
  /\ f_attempt = 0
  /\ f_result = <<>>
  /\ f_source = "none"
  /\ f_accepted = NoResponse
  /\ n_fetch = 0
  /\ n_urandom = 0

\* a direct call with any arguments
FetchDirectCall ==
  \E size \in FetchSizes, retries \in 0..MaxRetries :
    FetchEnter("direct", size, retries)

FetchDirectReturn ==
  /\ f_pc \in {"returned", "raised"}
  /\ f_caller = "direct"
  /\ FetchLeave

(***************************************************************************)
(* CipherPipeline: pyaes.AESModeOfOperationCTR as encrypt_audio and        *)
(* decrypt_audio use it.  The library is not part of the repository; what  *)
(* is modelled of it is what the two handlers rely on:                     *)
(*   - the constructor raises ValueError('Invalid key size') unless the    *)
(*     key has 16, 24 or 32 bytes;                                         *)
(*   - without a counter argument the counter starts at 1;                 *)
(*   - encrypt XORs the data with the concatenation of the AES blocks of   *)
(*     the successive counter values, and decrypt is encrypt.              *)
(* The AES block function itself is abstracted to a fixed mixing function  *)
(* of the key and the counter.                                             *)
(***************************************************************************)
AesKeySizes == {16, 24, 32}
BlockSize == 16
InitialCounter == 1

RECURSIVE BitXor(_, _, _)
BitXor(a, b, n) ==
  IF n = 0 THEN 0
  ELSE (((a % 2) + (b % 2)) % 2) + 2 * BitXor(a \div 2, b \div 2, n - 1)

XorTable == [a \in Byte |-> [b \in Byte |-> BitXor(a, b, 8)]]

\* p ^ c on bytes
Xor(a, b) == XorTable[a][b]

RECURSIVE KeyMix(_, _)
KeyMix(key, i) ==
  IF i = 0 THEN Len(key) ELSE (KeyMix(key, i - 1) * 3 + key[i] + i) % 256

\* byte j (1..16) of the AES encryption of counter value ctr under key
AesBlockByte(key, ctr, j) == (KeyMix(key, Len(key)) * 7 + ctr * 101 + j * 37 + 11) % 256

\* a cipher made with counter value `ctr`, applied once to `data`
CtrCrypt(key, ctr, data) ==
  [i \in 1..Len(data) |->
     Xor(data[i], AesBlockByte(key, ctr + ((i - 1) \div BlockSize),
                               ((i - 1) % BlockSize) + 1))]

\* a block mode: the plaintext is filled with zero bytes up to a whole
\* number of blocks before it is encrypted
EncryptBytes_Padded(key, plaintext) ==
  CtrCrypt(key, InitialCounter,
           plaintext \o [i \in 1..((BlockSize - (Len(plaintext) % BlockSize)) % BlockSize) |-> 0])

\* lines 249 and 273: a new cipher per request, then aes.encrypt(audio_bytes)
EncryptBytes(key, plaintext) == CtrCrypt(key, InitialCounter, plaintext)

\* a cipher kept from an earlier request: its counter has moved on
DecryptBytes_StaleCounter(key, ciphertext) ==
  CtrCrypt(key, InitialCounter + 1, ciphertext)

\* lines 392 and 395: a new cipher per request, then aes_decrypt.decrypt(...)
DecryptBytes(key, ciphertext) == CtrCrypt(key, InitialCounter, ciphertext)

\* the constructor at lines 249, 332 and 392 raises for any other key length
CipherRaises(key) == Len(key) \notin AesKeySizes

(***************************************************************************)
(* Hex strings at the boundary: binascii.hexlify / bytes.hex (lines 286,   *)
(* 287) and bytes.fromhex (lines 369, 370).                                *)
(***************************************************************************)
HexDigit == 0..15
BadDigit == 16

HexEncode(bytes) ==
  [i \in 1..(2 * Len(bytes)) |->
     IF i % 2 = 1 THEN bytes[(i + 1) \div 2] \div 16 ELSE bytes[i \div 2] % 16]

\* bytes.fromhex that would take an odd number of digits
FromHexRaises_DigitsOnly(h) == \E i \in DOMAIN h : h[i] \notin HexDigit

\* bytes.fromhex raises ValueError for an odd number of digits or a
\* character that is no hex digit
FromHexRaises(h) == Len(h) % 2 = 1 \/ \E i \in DOMAIN h : h[i] \notin HexDigit

HexDecode(h) ==
  [i \in 1..(Len(h) \div 2) |-> 16 * h[2 * i - 1] + h[2 * i]]

(***************************************************************************)
(* Sample values.  np.frombuffer(..., dtype=np.float64) reinterprets each  *)
(* group of eight bytes (little-endian) as an IEEE 754 double: sign bit,   *)
(* 11 exponent bits, 52 fraction bits.  A sample is kept as                *)
(*     cls = "nan" | "inf" | "fin",  neg  (the sign),                      *)
(*     and for a finite one the magnitude (num / den) * 2^e                *)
(* with num and den odd and coprime (num = 0, den = 1, e = 0 for zero).    *)
(* The arithmetic on finite samples is exact rational arithmetic.  Of the  *)
(* fraction the leading 12 bits are read: the value is exact for every     *)
(* double whose remaining 40 fraction bits are zero, as in FloatPayloads.  *)
(***************************************************************************)
RECURSIVE Gcd(_, _)
Gcd(a, b) == IF b = 0 THEN a ELSE Gcd(b, a % b)

\* the number of trailing zero bits of n > 0
RECURSIVE TwoAdic(_)
TwoAdic(n) == IF n % 2 = 1 THEN 0 ELSE 1 + TwoAdic(n \div 2)

NaN == [cls |-> "nan", neg |-> FALSE, num |-> 0, den |-> 1, e |-> 0]
Inf(neg) == [cls |-> "inf", neg |-> neg, num |-> 0, den |-> 1, e |-> 0]

\* the finite value (-1)^neg * (num / den) * 2^e in lowest terms
Fin(neg, num, den, e) ==
  IF num = 0
    THEN [cls |-> "fin", neg |-> neg, num |-> 0, den |-> 1, e |-> 0]
    ELSE LET g == Gcd(num, den)
             n1 == num \div g
             d1 == den \div g
             a == TwoAdic(n1)
             b == TwoAdic(d1)
         IN [cls |-> "fin", neg |-> neg, num |-> n1 \div (2 ^ a),
             den |-> d1 \div (2 ^ b), e |-> e + a - b]

One == Fin(FALSE, 1, 1, 0)

\* |a| > |b| for finite a and b
AbsGt(a, b) ==
  LET l == a.num * b.den
      r == b.num * a.den
      k == a.e - b.e
  IN IF l = 0 THEN FALSE
     ELSE IF r = 0 THEN TRUE
     ELSE IF k >= 0 THEN k > 30 \/ l > r \div (2 ^ k)
     ELSE -k <= 30 /\ (l - 1) \div (2 ^ (-k)) >= r

\* the double whose bytes, lowest first, are p[1..8]
FloatOf(p) ==
  LET neg == p[8] >= 128
      ex == (p[8] % 128) * 16 + (p[7] \div 16)
      top == (p[7] % 16) * 256 + p[6]
      low == \E i \in 1..5 : p[i] # 0
  IN IF ex = 2047
       THEN IF top = 0 /\ ~low THEN Inf(neg) ELSE NaN
     ELSE IF ex = 0
       THEN Fin(neg, top, 1, -1022 - 12)
     ELSE Fin(neg, 4096 + top, 1, ex - 1023 - 12)

\* np.frombuffer raises ValueError unless the buffer's length is a multiple
\* of the element size; an empty buffer gives an empty array
FrombufferRaises(bytes, size) == Len(bytes) % size # 0

\* an array, held by value
Array(f) == SubSeq(f, 1, Len(f))

\* np.frombuffer(bytes, dtype=np.float64), lines 410, 420, 428
AsFloat64(bytes) ==
  LET b == Array(bytes) IN
  Array([i \in 1..(Len(b) \div 8) |-> FloatOf(SubSeq(b, 8 * i - 7, 8 * i))])

\* line 451: int16_data.astype(np.float64) / 32767.0
Int16Divisor == 32767

\* lines 445-451: little-endian two's complement 16-bit values, scaled
AsInt16(bytes) ==
  Array([i \in 1..(Len(bytes) \div 2) |->
           LET v == bytes[2 * i - 1] + 256 * bytes[2 * i]
           IN IF v >= 32768 THEN Fin(TRUE, 65536 - v, Int16Divisor, 0)
                            ELSE Fin(FALSE, v, Int16Divisor, 0)])

\* lines 457-458: pcm_data.astype(np.float64) / 128.0 - 1.0
AsUint8(bytes) ==
  Array([i \in 1..Len(bytes) |->
           IF bytes[i] >= 128 THEN Fin(FALSE, bytes[i] - 128, 1, -7)
                              ELSE Fin(TRUE, 128 - bytes[i], 1, -7)])

\* the larger magnitude of m and x, as a non-negative sample
Larger(m, x) == IF AbsGt(x, m) THEN [x EXCEPT !.neg = FALSE] ELSE m

\* the largest magnitude among the first i (finite) samples
RECURSIVE FinMax(_, _)
FinMax(signal, i) ==
  IF i = 0 THEN Fin(FALSE, 0, 1, 0)
  ELSE Larger(FinMax(signal, i - 1), signal[i])

\* np.max(np.abs(signal)) of a non-empty array: NaN if any sample is NaN
MaxAbs(signal) ==
  IF \E i \in DOMAIN signal : signal[i].cls = "nan" THEN NaN
  ELSE IF \E i \in DOMAIN signal : signal[i].cls = "inf" THEN Inf(FALSE)
  ELSE FinMax(signal, Len(signal))

\* m > t for m = MaxAbs(...) and a finite positive t; a comparison with NaN
\* is false
Exceeds(m, t) ==
  CASE m.cls = "nan" -> FALSE
    [] m.cls = "inf" -> TRUE
    [] OTHER -> AbsGt(m, t)

\* line 436: 1e10 = 9765625 * 2^10
Implausible == Fin(FALSE, 9765625, 1, 10)

\* line 468: x / max_val, for max_val > 1.0 (finite or infinite)
Divide(x, m) ==
  CASE x.cls = "nan" -> NaN
    [] x.cls = "inf" -> NaN
    [] m.cls = "inf" -> Fin(x.neg, 0, 1, 0)
    [] OTHER -> Fin(x.neg, x.num * m.den, x.den * m.num, x.e - m.e)

\* line 472: np.clip(x, -1.0, 1.0); NaN stays NaN
Clip(x) ==
  CASE x.cls = "nan" -> NaN
    [] x.cls = "inf" -> Fin(x.neg, 1, 1, 0)
    [] OTHER -> IF AbsGt(x, One) THEN Fin(x.neg, 1, 1, 0) ELSE x

\* line 463: np.min and np.max raise ValueError on an array without elements
ReductionRaises_Never(signal) == FALSE

ReductionRaises(signal) == signal = <<>>

\* lines 466-472: normalise when the maximum magnitude exceeds 1.0, then clip
PostProcess(signal) ==
  LET m == MaxAbs(signal)
      scaled == IF Exceeds(m, One)
                  THEN Array([i \in DOMAIN signal |-> Divide(signal[i], m)])
                  ELSE signal
  IN Array([i \in DOMAIN signal |-> Clip(scaled[i])])

\* line 476: the factor of the 16-bit PCM conversion
PcmScale == 32767

\* What the cast of a NaN to int16 gives is not defined (numpy warns
\* "invalid value encountered in cast"); builds give the minimum or zero.
NanCasts == {-32768, 0}

\* line 476: np.int16(x * 32767) for |x| <= 1.0: the cast drops the fraction
Quantize(x, nan_cast) ==
  IF x.cls # "fin" THEN nan_cast
  ELSE LET p == x.num * PcmScale
           mag == IF x.e >= 0 THEN (p * (2 ^ x.e)) \div x.den
                  ELSE IF -x.e > 30 \/ 2 ^ (-x.e) > p \div x.den THEN 0
                  ELSE p \div (x.den * (2 ^ (-x.e)))
       IN IF x.neg THEN -mag ELSE mag

\* lines 476 and 488: audio_16bit, the frames written to the container
Frames(signal, nan_cast) ==
  Array([i \in DOMAIN signal |-> Quantize(signal[i], nan_cast)])

(***************************************************************************)
(* PayloadFormatResolver: lines 402-460 of decrypt_audio                   *)
(***************************************************************************)
\* np.prod(shape)
RECURSIVE Prod(_)
Prod(shape) == IF shape = <<>> THEN 1 ELSE Head(shape) * Prod(Tail(shape))

\* line 410 with the whole buffer instead of the leading slice
MetadataSlice_Whole(bytes, n) == bytes

\* line 410: decrypted_voice[:expected_bytes]
MetadataSlice(bytes, n) == SubSeq(bytes, 1, n)

\* One probe of lines 427-460: whether the interpretation is accepted, and
\* the signal it gives.
\*   float64 (428-438): refused when frombuffer raises, the array is empty
\*                      or max_val > 1e10
\*   int16   (445-451): refused when frombuffer raises or the array is empty
\*   uint8   (457-459): the last resort, outside any try
TryInterp(kind, bytes) ==
  CASE kind = "float64" ->
         IF FrombufferRaises(bytes, 8) \/ bytes = <<>>
           THEN [ok |-> FALSE, signal |-> <<>>]
           ELSE [ok |-> ~Exceeds(MaxAbs(AsFloat64(bytes)), Implausible),
                 signal |-> AsFloat64(bytes)]
    [] kind = "int16" ->
         IF FrombufferRaises(bytes, 2) \/ bytes = <<>>
           THEN [ok |-> FALSE, signal |-> <<>>]
           ELSE [ok |-> TRUE, signal |-> AsInt16(bytes)]
    [] OTHER -> [ok |-> TRUE, signal |-> AsUint8(bytes)]

\* the nesting of the try blocks at lines 427, 443 and 457, int16 first
ProbeOrder_Int16First == <<"int16", "float64", "uint8">>

\* the nesting of the try blocks at lines 427, 443 and 457, the raw bytes
\* before int16
ProbeOrder_Uint8Second == <<"float64", "uint8", "int16">>

\* the nesting of the try blocks at lines 427, 443 and 457
ProbeOrder == <<"float64", "int16", "uint8">>

\* the probes run, in order, until one is accepted
RECURSIVE Probe(_, _, _)
Probe(bytes, i, tried) ==
  LET kind == ProbeOrder[i]
      r == TryInterp(kind, bytes)
  IN IF r.ok \/ i = Len(ProbeOrder)
       THEN [tried |-> Append(tried, kind), accepted |-> kind,
             signal |-> r.signal, raised |-> FALSE]
       ELSE Probe(bytes, i + 1, Append(tried, kind))

\* lines 404-460.  With data_type 'float64' and a non-empty shape the
\* leading expected_bytes are read as float64 (404-413); when there are
\* fewer, the handler of line 417 reads the whole buffer as float64, and an
\* exception of that frombuffer leaves the resolver (to line 516).
Resolve(bytes, metadata) ==
  IF metadata.data_type = "float64" /\ metadata.shape # <<>>
    THEN LET expected_bytes == Prod(metadata.shape) * 8 IN
         IF Len(bytes) >= expected_bytes
           THEN [tried |-> <<"meta_float64">>, accepted |-> "meta_float64",
                 signal |-> AsFloat64(MetadataSlice(bytes, expected_bytes)),
                 raised |-> FALSE]
         ELSE IF FrombufferRaises(bytes, 8)
           THEN [tried |-> <<"meta_float64", "fallback_float64">>,
                 accepted |-> "none", signal |-> <<>>, raised |-> TRUE]
         ELSE [tried |-> <<"meta_float64", "fallback_float64">>,
               accepted |-> "fallback_float64", signal |-> AsFloat64(bytes),
               raised |-> FALSE]
    ELSE Probe(bytes, 1, <<>>)

\* lines 484-489: wave.setframerate raises wave.Error('bad frame rate')
\* unless the rate is positive
WaveRaises(sample_rate) == sample_rate <= 0

NoWav == [present |-> FALSE, rate |-> 0, frames |-> <<>>]

(***************************************************************************)
(* encrypt_audio                                                           *)
(***************************************************************************)
VARIABLES
  e_pc,      \* "idle", "fetching" (inside fetch_quantum_key), "done"
  e_req,     \* the request
  e_status,  \* the HTTP status of the response: 0 (none yet), 200, 400, 500
  e_error,   \* the response's 'error'
  e_key,     \* aes_key
  e_out,     \* the response's encrypted_data, aes_key and metadata
  enc_log    \* the successful encryptions so far: plaintext, key, response

encryptVars == <<e_pc, e_req, e_status, e_error, e_key, e_out, enc_log>>

\* decrypt_audio: the request being answered and its response
VARIABLES
  d_req,     \* the request
  d_status,  \* 0 (no request being answered), 200, 400, 500
  d_error,
  d_cipher,  \* whether a cipher was made for the request's key
  d_plain,   \* decrypted_voice
  d_tried,   \* the interpretations the resolver ran, in order
  d_accepted,\* the interpretation whose signal was taken ("none": none)
  d_signal,  \* decrypted_voice_signal as multiplied at line 476
  d_wav      \* the container returned: frame rate and 16-bit frames

decryptVars == <<d_req, d_status, d_error, d_cipher, d_plain, d_tried,
                 d_accepted, d_signal, d_wav>>

\* the plaintext lengths: empty, one byte, one block and a byte, whole blocks
PlainLens == {0, 1, BlockSize + 1, MaxPlainBlocks * BlockSize}
Pattern(n, s) == [i \in 1..n |-> (i * 13 + s) % 256]
PlainSamples == {Pattern(n, 0) : n \in PlainLens}

\* metadata as decrypt_audio reads it when the request has none (lines 379-382)
NoMetadata == [data_type |-> "unknown", shape |-> <<>>, sample_rate |-> SAMPLE_RATE]

\* lines 252-268 and 290-294: np.frombuffer(audio_bytes, dtype=np.float64)
\* raises unless the length is a multiple of 8
EncryptMetadata(audio) ==
  IF Len(audio) % 8 = 0 /\ Len(audio) > 0
    THEN [data_type |-> "float64", shape |-> <<Len(audio) \div 8>>,
          sample_rate |-> SAMPLE_RATE]
    ELSE [data_type |-> "bytes", shape |-> <<Len(audio)>>,
          sample_rate |-> SAMPLE_RATE]

NoOutput == [encrypted_data |-> <<>>, aes_key |-> <<>>, metadata |-> NoMetadata]

\* a request: whether the JSON has 'raw_audio_data', whether it is valid
\* base64, and the bytes it decodes to
EncryptRequests ==
  {[present |-> FALSE, b64ok |-> FALSE, audio |-> <<>>],
   [present |-> TRUE, b64ok |-> FALSE, audio |-> <<>>]}
  \cup {[present |-> TRUE, b64ok |-> TRUE, audio |-> p] : p \in PlainSamples}

\* lines 228-247: the request is validated, then the key is asked for
EncryptBegin(req) ==
  /\ e_pc = "idle"
  /\ d_status = 0
  /\ f_pc = "idle"
  /\ e_req' = req
  /\ e_key' = <<>>
  /\ e_out' = NoOutput
  /\ UNCHANGED enc_log
  /\ IF ~req.present
       THEN /\ e_pc' = "done"
            /\ e_status' = 400
            /\ e_error' = "Missing raw audio data"
            /\ UNCHANGED fetchVars
     ELSE IF ~req.b64ok
       THEN /\ e_pc' = "done"
            /\ e_status' = 400
            /\ e_error' = "Invalid audio data format"
            /\ UNCHANGED fetchVars
     ELSE /\ e_pc' = "fetching"
          /\ e_status' = 0
          /\ e_error' = ""
          /\ FetchEnter("encrypt", KeySize, DefaultRetries)

\* lines 247-312: fetch_quantum_key has returned; the cipher is made, the
\* audio encrypted and the response built.  An exception of the constructor
\* (or one leaving fetch_quantum_key) reaches the handler of line 310.
EncryptFinish ==
  /\ e_pc = "fetching"
  /\ f_pc \in {"returned", "raised"}
  /\ f_caller = "encrypt"
  /\ FetchLeave
  /\ e_pc' = "done"
  /\ UNCHANGED e_req
  /\ IF f_pc = "raised"
       THEN /\ e_status' = 500
            /\ e_error' = "fetch_quantum_key raised"
            /\ UNCHANGED <<e_key, e_out, enc_log>>
     ELSE IF CipherRaises(f_result)
       THEN /\ e_status' = 500
            /\ e_error' = "Invalid key size"
            /\ e_key' = f_result
            /\ UNCHANGED <<e_out, enc_log>>
     ELSE LET out == [encrypted_data |-> HexEncode(EncryptBytes(f_result, e_req.audio)),
                      aes_key |-> HexEncode(f_result),
                      metadata |-> EncryptMetadata(e_req.audio)]
          IN /\ e_status' = 200
             /\ e_error' = ""
             /\ e_key' = f_result
             /\ e_out' = out
             /\ enc_log' = Append(enc_log,
                             [plaintext |-> e_req.audio, key |-> f_result, out |-> out])

EncryptRequest == \E req \in EncryptRequests : EncryptBegin(req)

NoEncryptRequest == [present |-> FALSE, b64ok |-> FALSE, audio |-> <<>>]

\* the response has been sent
EncryptRespond ==
  /\ e_pc = "done"
  /\ e_pc' = "idle"
  /\ e_req' = NoEncryptRequest
  /\ e_status' = 0
  /\ e_error' = ""
  /\ e_key' = <<>>
  /\ e_out' = NoOutput
  /\ UNCHANGED enc_log

(***************************************************************************)
(* decrypt_audio (lines 359-522)                                           *)
(***************************************************************************)
NoRequest ==
  [has_data |-> FALSE, has_key |-> FALSE, encrypted_data |-> <<>>,
   aes_key |-> <<>>, metadata |-> NoMetadata]

\* keys of every length around the valid ones, as hex
KeyLens == {0, 1, 16, 24, 32, 33}
CraftedKeys == {HexEncode(Rep(n, 7)) : n \in KeyLens}
CraftedData == {HexEncode(Pattern(BlockSize + 1, 3))}

\* what a client may send: what encrypt_audio returned (with the key of the
\* same or of another response), or anything else
DecryptRequests ==
  {[has_data |-> TRUE, has_key |-> TRUE,
    encrypted_data |-> enc_log[i].out.encrypted_data,
    aes_key |-> enc_log[j].out.aes_key,
    metadata |-> m] :
      i \in DOMAIN enc_log, j \in DOMAIN enc_log,
      m \in {NoMetadata} \cup {enc_log[k].out.metadata : k \in DOMAIN enc_log}}
  \cup {[has_data |-> TRUE, has_key |-> TRUE, encrypted_data |-> c,
         aes_key |-> k, metadata |-> NoMetadata] :
           c \in CraftedData, k \in CraftedKeys}
  \cup {[has_data |-> TRUE, has_key |-> TRUE, encrypted_data |-> c,
         aes_key |-> k, metadata |-> NoMetadata] :
           c \in {<<1, 2, 3>>, <<1, BadDigit>>, <<1, 2>>},
           k \in {<<BadDigit, 7>>, HexEncode(Rep(KeySize, 7))}}
  \cup {[has_data |-> a, has_key |-> b, encrypted_data |-> <<>>,
         aes_key |-> <<>>, metadata |-> NoMetadata] :
           a \in BOOLEAN, b \in BOOLEAN}

\* the response of decrypt_audio to a request that fails before the resolver
DecryptFails(status, error, cipher, plain) ==
  /\ d_status' = status
  /\ d_error' = error
  /\ d_cipher' = cipher
  /\ d_plain' = plain
  /\ d_tried' = <<>>
  /\ d_accepted' = "none"
  /\ d_signal' = <<>>
  /\ d_wav' = NoWav

\* lines 402-518: the decrypted bytes are resolved to a signal, normalised,
\* clipped, quantized and written to a WAV container; every exception on
\* the way is answered by the handler of line 516.  `wavs` holds the
\* containers the request may be answered with.
ResolveOutcome(plain, metadata) ==
  LET r == Resolve(plain, metadata)
      fails == r.raised \/ ReductionRaises(r.signal)
      signal == IF fails THEN <<>> ELSE PostProcess(r.signal)
      nan_casts == IF \E i \in DOMAIN signal : signal[i].cls # "fin"
                     THEN NanCasts ELSE {0}
  IN IF fails \/ WaveRaises(metadata.sample_rate)
       THEN [tried |-> r.tried, accepted |-> r.accepted, signal |-> signal,
             status |-> 500, error |-> "Failed to create audio file",
             wavs |-> {NoWav}]
       ELSE [tried |-> r.tried, accepted |-> r.accepted, signal |-> signal,
             status |-> 200, error |-> "",
             wavs |-> {[present |-> TRUE, rate |-> metadata.sample_rate,
                        frames |-> Frames(signal, nan_cast)] :
                          nan_cast \in nan_casts}]

DecryptResolve(req, decrypted_voice) ==
  LET plain == Array(decrypted_voice)
      out == ResolveOutcome(plain, req.metadata)
  IN /\ d_cipher' = TRUE
     /\ d_plain' = plain
     /\ d_tried' = out.tried
     /\ d_accepted' = out.accepted
     /\ d_signal' = out.signal
     /\ d_status' = out.status
     /\ d_error' = out.error
     /\ d_wav' \in out.wavs

DecryptRequest(req) ==
  /\ e_pc = "idle"
  /\ d_status = 0
  /\ d_req' = req
  /\ IF ~req.has_data \/ ~req.has_key
       THEN DecryptFails(400, "Missing required data", FALSE, <<>>)
     ELSE IF FromHexRaises(req.encrypted_data) \/ FromHexRaises(req.aes_key)
       THEN DecryptFails(400, "Invalid encrypted data format", FALSE, <<>>)
     ELSE IF CipherRaises(HexDecode(req.aes_key))
       THEN DecryptFails(500, "Failed to decrypt data", FALSE, <<>>)
     ELSE DecryptResolve(req, DecryptBytes(HexDecode(req.aes_key),
                                           HexDecode(req.encrypted_data)))

\* requests are answered one at a time
DecryptAudio ==
  /\ e_pc = "idle"
  /\ d_status = 0
  /\ \E req \in DecryptRequests : DecryptRequest(req)

\* Decrypted payloads for the resolver.  Double(hi, lo) is the double whose
\* two highest bytes are hi and lo and whose other bytes are zero.
Double(hi, lo) == <<0, 0, 0, 0, 0, 0, lo, hi>>

\* 0.5, 0.25, -0.75, 3.0, 2^40 (above 1e10), 2^33 (below it), a NaN, +Inf
FloatPayloads ==
  [half |-> Double(63, 224), quarter |-> Double(63, 208),
   minus |-> Double(191, 232), three |-> Double(64, 8),
   huge |-> Double(66, 112), large |-> Double(66, 0),
   nan |-> Double(127, 248), inf |-> Double(127, 240)]

\* n doubles within [-1, 1]
RECURSIVE Doubles(_)
Doubles(n) ==
  IF n = 0 THEN <<>>
  ELSE Doubles(n - 1) \o (IF n % 2 = 1 THEN FloatPayloads.half
                                        ELSE FloatPayloads.minus)

ResolverPayloads ==
  {<<>>,
   <<200>>,
   <<0, 128>>,
   <<0, 200, 255>>,
   <<0, 64, 255, 127>>,
   FloatPayloads.quarter,
   FloatPayloads.half \o FloatPayloads.three,
   FloatPayloads.large \o FloatPayloads.half,
   FloatPayloads.huge \o FloatPayloads.half,
   FloatPayloads.nan \o FloatPayloads.half,
   FloatPayloads.inf \o FloatPayloads.half,
   FloatPayloads.half \o <<1>>,
   FloatPayloads.half \o FloatPayloads.three \o <<5, 6>>,
   Doubles(MaxSamples)}

\* metadata of a request: none, what encrypt_audio writes for raw bytes, or
\* float64 with a shape (lines 379-382); the sample rate is any integer
ResolverMetadata ==
  {NoMetadata, [data_type |-> "bytes", shape |-> <<3>>, sample_rate |-> SAMPLE_RATE]}
  \cup [data_type : {"float64"},
        shape : {<<>>, <<1, 2>>} \cup {<<n>> : n \in 0..MaxSamples},
        sample_rate : {SAMPLE_RATE, 8000, 0}]

\* requests whose ciphertext decrypts, under the key sent, to a payload
ResolverRequests ==
  {[has_data |-> TRUE, has_key |-> TRUE,
    encrypted_data |-> HexEncode(EncryptBytes(Rep(KeySize, 7), p)),
    aes_key |-> HexEncode(Rep(KeySize, 7)),
    metadata |-> m] : p \in ResolverPayloads, m \in ResolverMetadata}

ResolveAudio ==
  /\ e_pc = "idle"
  /\ d_status = 0
  /\ \E req \in ResolverRequests : DecryptRequest(req)

\* the response has been sent
DecryptRespond ==
  /\ d_status # 0
  /\ d_req' = NoRequest
  /\ d_status' = 0
  /\ d_error' = ""
  /\ d_cipher' = FALSE
  /\ d_plain' = <<>>
  /\ d_tried' = <<>>
  /\ d_accepted' = "none"
  /\ d_signal' = <<>>
  /\ d_wav' = NoWav

InitCipherVars ==
  /\ e_pc = "idle"
  /\ e_req = NoEncryptRequest
  /\ e_status = 0
  /\ e_error = ""
  /\ e_key = <<>>
  /\ e_out = NoOutput
  /\ enc_log = <<>>
  /\ d_req = NoRequest
  /\ d_status = 0
  /\ d_error = ""
  /\ d_cipher = FALSE
  /\ d_plain = <<>>
  /\ d_tried = <<>>
  /\ d_accepted = "none"
  /\ d_signal = <<>>
  /\ d_wav = NoWav

(***************************************************************************)
(* CaptureSession: the globals recording_active and audio_queue, the       *)
(* request handlers start_recording and stop_recording, the recorder       *)
(* threads and the callbacks of their audio streams.                       *)
(*                                                                         *)
(* A handler runs in a request thread of the server; each statement that   *)
(* reads or writes a global, and each blocking call, is a step of its own. *)
(* time.sleep is a step like any other: nothing is assumed about how far   *)
(* the other threads get while a thread sleeps.                            *)
(***************************************************************************)
VARIABLES
  recording_active,  \* line 28
  audio_queue,       \* line 29: the chunks in the queue, oldest first
  handlers,          \* the request threads that take requests
  h_pc,              \* per request thread: where it is in its handler
  h_op,              \* "none", "start", "stop"
  h_chunks,          \* stop_recording's audio_chunks
  h_thread,          \* start_recording: the thread it started (0: none)
  h_resp,            \* the response: status, error, the samples returned
  t_pc,              \* per recorder thread: "none", "starting", "streaming", "exited"
  cb_pc,             \* per stream: "idle", "put" (callback past its check)
  cb_chunk,          \* the chunk (indata) the callback holds
  n_starts, n_stops, n_chunks,
  \* history, for the claims:
  put_log,           \* every chunk put on the queue, in order
  session_mark,      \* Len(put_log) when the last start() found the queue empty
  h_entry_active     \* recording_active when the handler was entered

sessionVars == <<recording_active, audio_queue, handlers, h_pc, h_op, h_chunks,
                 h_thread, h_resp, t_pc, cb_pc, cb_chunk, n_starts, n_stops,
                 n_chunks, put_log, session_mark, h_entry_active>>

Handlers == 1..MaxHandlers
Threads == 1..MaxStarts

\* the chunk number n delivered to the stream of recorder thread t: an array
\* of frames, each tagged with where it came from
Chunk(t, n) == [i \in 1..FramesPerChunk |-> [producer |-> t, chunk |-> n, frame |-> i]]

\* np.concatenate(audio_chunks).flatten(), lines 135-136
RECURSIVE Concatenate(_)
Concatenate(chunks) ==
  IF chunks = <<>> THEN <<>> ELSE Head(chunks) \o Concatenate(Tail(chunks))

NoResp == [status |-> 0, error |-> "", samples |-> <<>>]

\* line 129: audio_chunks.append(audio_queue.get()), newest first instead
Collect_Prepend(chunks, c) == <<c>> \o chunks

\* line 129: audio_chunks.append(audio_queue.get())
Collect(chunks, c) == Append(chunks, c)

\* lines 131-173 without the test of line 131: np.concatenate([]) raises
\* and the handler of line 174 answers 500
StopResponse_NoEmptyCheck(chunks) ==
  IF chunks = <<>>
    THEN [status |-> 500, error |-> "need at least one array to concatenate",
          samples |-> <<>>]
    ELSE [status |-> 200, error |-> "", samples |-> Concatenate(chunks)]

\* lines 131-173: the response of stop_recording once the queue is drained.
\* The samples are voice_signal as concatenated (before the conversion to
\* float64 and the normalisation, which keep their number and order).
StopResponse(chunks) ==
  IF chunks = <<>>
    THEN [status |-> 400, error |-> "No audio data recorded", samples |-> <<>>]
    ELSE [status |-> 200, error |-> "", samples |-> Concatenate(chunks)]

\* line 120, with the queue drained and the flag cleared first
StopRejected_Drains(h) ==
  /\ recording_active' = FALSE
  /\ audio_queue' = <<>>
  /\ h_pc' = [h_pc EXCEPT ![h] = "done"]
  /\ h_resp' = [h_resp EXCEPT
                  ![h] = [status |-> 400, error |-> "Recording was not active",
                          samples |-> <<>>]]

\* lines 119-120: stop_recording while not recording
StopRejected(h) ==
  /\ UNCHANGED <<recording_active, audio_queue>>
  /\ h_pc' = [h_pc EXCEPT ![h] = "done"]
  /\ h_resp' = [h_resp EXCEPT
                  ![h] = [status |-> 400, error |-> "Recording was not active",
                          samples |-> <<>>]]

\* a request thread takes a request only when it is one of `handlers`
Takes(h) == h \in handlers /\ h_pc[h] = "idle"

\* POST /api/start-recording arrives
StartCall(h) ==
  /\ Takes(h)
  /\ n_starts < MaxStarts
  /\ n_starts' = n_starts + 1
  /\ h_pc' = [h_pc EXCEPT ![h] = "start_clear"]
  /\ h_op' = [h_op EXCEPT ![h] = "start"]
  /\ h_entry_active' = [h_entry_active EXCEPT ![h] = recording_active]
  /\ UNCHANGED <<recording_active, audio_queue, handlers, h_chunks, h_thread,
                 h_resp, t_pc, cb_pc, cb_chunk, n_stops, n_chunks, put_log,
                 session_mark>>

\* line 93: while not audio_queue.empty()
StartClearCheck(h) ==
  /\ h_pc[h] = "start_clear"
  /\ IF audio_queue = <<>>
       THEN /\ h_pc' = [h_pc EXCEPT ![h] = "start_set"]
            /\ session_mark' = Len(put_log)
       ELSE /\ h_pc' = [h_pc EXCEPT ![h] = "start_get"]
            /\ UNCHANGED session_mark
  /\ UNCHANGED <<recording_active, audio_queue, handlers, h_op, h_chunks,
                 h_thread, h_resp, t_pc, cb_pc, cb_chunk, n_starts, n_stops,
                 n_chunks, put_log, h_entry_active>>

\* line 94: audio_queue.get() blocks while the queue is empty
StartClearGet(h) ==
  /\ h_pc[h] = "start_get"
  /\ audio_queue # <<>>
  /\ audio_queue' = Tail(audio_queue)
  /\ h_pc' = [h_pc EXCEPT ![h] = "start_clear"]
  /\ UNCHANGED <<recording_active, handlers, h_op, h_chunks, h_thread, h_resp,
                 t_pc, cb_pc, cb_chunk, n_starts, n_stops, n_chunks, put_log,
                 session_mark, h_entry_active>>

\* line 97: recording_active = True
StartSet(h) ==
  /\ h_pc[h] = "start_set"
  /\ recording_active' = TRUE
  /\ h_pc' = [h_pc EXCEPT ![h] = "start_spawn"]
  /\ UNCHANGED <<audio_queue, handlers, h_op, h_chunks, h_thread, h_resp, t_pc,
                 cb_pc, cb_chunk, n_starts, n_stops, n_chunks, put_log,
                 session_mark, h_entry_active>>

\* lines 102-107: the recorder thread is started and the request answered
StartSpawn(h) ==
  /\ h_pc[h] = "start_spawn"
  /\ \E t \in Threads :
       /\ t_pc[t] = "none"
       /\ \A u \in Threads : t_pc[u] = "none" => t <= u
       /\ t_pc' = [t_pc EXCEPT ![t] = "starting"]
       /\ h_thread' = [h_thread EXCEPT ![h] = t]
  /\ h_pc' = [h_pc EXCEPT ![h] = "done"]
  /\ h_resp' = [h_resp EXCEPT
                  ![h] = [status |-> 200, error |-> "", samples |-> <<>>]]
  /\ UNCHANGED <<recording_active, audio_queue, handlers, h_op, h_chunks, cb_pc,
                 cb_chunk, n_starts, n_stops, n_chunks, put_log, session_mark,
                 h_entry_active>>

\* lines 108-111: Thread.start() raised (no thread could be started)
StartSpawnFails(h) ==
  /\ h_pc[h] = "start_spawn"
  /\ recording_active' = FALSE
  /\ h_pc' = [h_pc EXCEPT ![h] = "done"]
  /\ h_resp' = [h_resp EXCEPT
                  ![h] = [status |-> 500, error |-> "can't start new thread",
                          samples |-> <<>>]]
  /\ UNCHANGED <<audio_queue, handlers, h_op, h_chunks, h_thread, t_pc, cb_pc,
                 cb_chunk, n_starts, n_stops, n_chunks, put_log, session_mark,
                 h_entry_active>>

\* POST /api/stop-recording arrives; line 119: if not recording_active
StopCall(h) ==
  /\ Takes(h)
  /\ n_stops < MaxStops
  /\ n_stops' = n_stops + 1
  /\ h_op' = [h_op EXCEPT ![h] = "stop"]
  /\ h_entry_active' = [h_entry_active EXCEPT ![h] = recording_active]
  /\ IF ~recording_active
       THEN StopRejected(h)
       ELSE /\ h_pc' = [h_pc EXCEPT ![h] = "stop_set"]
            /\ UNCHANGED <<recording_active, audio_queue, h_resp>>
  /\ UNCHANGED <<handlers, h_chunks, h_thread, t_pc, cb_pc, cb_chunk, n_starts,
                 n_chunks, put_log, session_mark>>

\* line 123: recording_active = False
StopSet(h) ==
  /\ h_pc[h] = "stop_set"
  /\ recording_active' = FALSE
  /\ h_pc' = [h_pc EXCEPT ![h] = "stop_sleep"]
  /\ UNCHANGED <<audio_queue, handlers, h_op, h_chunks, h_thread, h_resp, t_pc,
                 cb_pc, cb_chunk, n_starts, n_stops, n_chunks, put_log,
                 session_mark, h_entry_active>>

\* line 124: time.sleep(0.5) returns
StopSleep(h) ==
  /\ h_pc[h] = "stop_sleep"
  /\ h_pc' = [h_pc EXCEPT ![h] = "stop_drain"]
  /\ UNCHANGED <<recording_active, audio_queue, handlers, h_op, h_chunks,
                 h_thread, h_resp, t_pc, cb_pc, cb_chunk, n_starts, n_stops,
                 n_chunks, put_log, session_mark, h_entry_active>>

\* line 128: while not audio_queue.empty(); when it is empty, lines 131-173
\* build the response from audio_chunks alone
StopDrainCheck(h) ==
  /\ h_pc[h] = "stop_drain"
  /\ IF audio_queue = <<>>
       THEN /\ h_pc' = [h_pc EXCEPT ![h] = "done"]
            /\ h_resp' = [h_resp EXCEPT ![h] = StopResponse(h_chunks[h])]
       ELSE /\ h_pc' = [h_pc EXCEPT ![h] = "stop_get"]
            /\ UNCHANGED h_resp
  /\ UNCHANGED <<recording_active, audio_queue, handlers, h_op, h_chunks,
                 h_thread, t_pc, cb_pc, cb_chunk, n_starts, n_stops, n_chunks,
                 put_log, session_mark, h_entry_active>>

\* line 129: audio_chunks.append(audio_queue.get()); get() blocks while the
\* queue is empty
StopDrainGet(h) ==
  /\ h_pc[h] = "stop_get"
  /\ audio_queue # <<>>
  /\ h_chunks' = [h_chunks EXCEPT ![h] = Collect(h_chunks[h], Head(audio_queue))]
  /\ audio_queue' = Tail(audio_queue)
  /\ h_pc' = [h_pc EXCEPT ![h] = "stop_drain"]
  /\ UNCHANGED <<recording_active, handlers, h_op, h_thread, h_resp, t_pc, cb_pc,
                 cb_chunk, n_starts, n_stops, n_chunks, put_log, session_mark,
                 h_entry_active>>

\* the response has been sent; the handler's locals are gone
HandlerReturn(h) ==
  /\ h_pc[h] = "done"
  /\ h_pc' = [h_pc EXCEPT ![h] = "idle"]
  /\ h_op' = [h_op EXCEPT ![h] = "none"]
  /\ h_chunks' = [h_chunks EXCEPT ![h] = <<>>]
  /\ h_thread' = [h_thread EXCEPT ![h] = 0]
  /\ h_resp' = [h_resp EXCEPT ![h] = NoResp]
  /\ h_entry_active' = [h_entry_active EXCEPT ![h] = FALSE]
  /\ UNCHANGED <<recording_active, audio_queue, handlers, t_pc, cb_pc, cb_chunk,
                 n_starts, n_stops, n_chunks, put_log, session_mark>>

\* lines 81-82: the recorder thread has opened its input stream
ThreadOpen(t) ==
  /\ t_pc[t] = "starting"
  /\ t_pc' = [t_pc EXCEPT ![t] = "streaming"]
  /\ UNCHANGED <<recording_active, audio_queue, handlers, h_pc, h_op, h_chunks,
                 h_thread, h_resp, cb_pc, cb_chunk, n_starts, n_stops, n_chunks,
                 put_log, session_mark, h_entry_active>>

\* lines 83-84: the thread finds recording_active false, leaves the loop and
\* the with block, which closes the stream once its callback has returned
ThreadExit(t) ==
  /\ t_pc[t] = "streaming"
  /\ ~recording_active
  /\ cb_pc[t] = "idle"
  /\ t_pc' = [t_pc EXCEPT ![t] = "exited"]
  /\ UNCHANGED <<recording_active, audio_queue, handlers, h_pc, h_op, h_chunks,
                 h_thread, h_resp, cb_pc, cb_chunk, n_starts, n_stops, n_chunks,
                 put_log, session_mark, h_entry_active>>

\* lines 70-74: the stream calls audio_recorder_callback with a new chunk
\* and the callback finds recording_active true.  (A chunk delivered while
\* it is false is dropped and changes nothing.)
CallbackCheck(t) ==
  /\ t_pc[t] = "streaming"
  /\ cb_pc[t] = "idle"
  /\ recording_active
  /\ n_chunks < MaxChunks
  /\ n_chunks' = n_chunks + 1
  /\ cb_pc' = [cb_pc EXCEPT ![t] = "put"]
  /\ cb_chunk' = [cb_chunk EXCEPT ![t] = Chunk(t, n_chunks + 1)]
  /\ UNCHANGED <<recording_active, audio_queue, handlers, h_pc, h_op, h_chunks,
                 h_thread, h_resp, t_pc, n_starts, n_stops, put_log,
                 session_mark, h_entry_active>>

\* line 75: audio_queue.put(indata.copy())
CallbackPut(t) ==
  /\ cb_pc[t] = "put"
  /\ audio_queue' = Append(audio_queue, cb_chunk[t])
  /\ put_log' = Append(put_log, cb_chunk[t])
  /\ cb_pc' = [cb_pc EXCEPT ![t] = "idle"]
  /\ cb_chunk' = [cb_chunk EXCEPT ![t] = <<>>]
  /\ UNCHANGED <<recording_active, handlers, h_pc, h_op, h_chunks, h_thread,
                 h_resp, t_pc, n_starts, n_stops, n_chunks, session_mark,
                 h_entry_active>>

InitSessionVars ==
  /\ recording_active = FALSE
  /\ audio_queue = <<>>
  /\ h_pc = [h \in Handlers |-> "idle"]
  /\ h_op = [h \in Handlers |-> "none"]
  /\ h_chunks = [h \in Handlers |-> <<>>]
  /\ h_thread = [h \in Handlers |-> 0]
  /\ h_resp = [h \in Handlers |-> NoResp]
  /\ t_pc = [t \in Threads |-> "none"]
  /\ cb_pc = [t \in Threads |-> "idle"]
  /\ cb_chunk = [t \in Threads |-> <<>>]
  /\ n_starts = 0
  /\ n_stops = 0
  /\ n_chunks = 0
  /\ put_log = <<>>
  /\ session_mark = 0
  /\ h_entry_active = [h \in Handlers |-> FALSE]

(***************************************************************************)
(* record_audio_only (lines 179-221): the legacy fixed-duration capture.   *)
(* sd.rec and sd.wait use the sound device's own stream; the function      *)
(* names neither recording_active nor audio_queue.                         *)
(***************************************************************************)
VARIABLES
  r_pc,      \* "idle", "recording" (inside sd.wait), "done"
  r_out,     \* the response: status, the samples returned
  n_legacy   \* legacy requests made so far beside a session (SpecLegacy)

recordVars == <<r_pc, r_out, n_legacy>>

NoRecording == [status |-> 0, samples |-> <<>>]

\* what sd.rec may have captured (dtype float64), as decrypt_audio reads
\* samples: within [-1, 1], or not
RecordedSignals ==
  {AsFloat64(FloatPayloads.half \o FloatPayloads.minus),
   AsFloat64(FloatPayloads.three \o FloatPayloads.half)}

\* lines 198-202: voice_signal / max_amplitude when max_amplitude > 1.0
RecordNormalize(signal) ==
  LET m == MaxAbs(signal) IN
  IF Exceeds(m, One) THEN Array([i \in DOMAIN signal |-> Divide(signal[i], m)])
  ELSE signal

\* line 190: sd.rec starts the capture; line 191 waits for it
RecordOnlyBegin ==
  /\ r_pc = "idle"
  /\ r_pc' = "recording"
  /\ UNCHANGED r_out

\* lines 191-215: the capture is over; the samples, normalised, are returned
RecordOnlyFinish ==
  /\ r_pc = "recording"
  /\ r_pc' = "done"
  /\ \E signal \in RecordedSignals :
       r_out' = [status |-> 200, samples |-> RecordNormalize(signal)]

\* lines 216-218: sd.rec or sd.wait raised (no device, device busy)
RecordOnlyFails ==
  /\ r_pc = "recording"
  /\ r_pc' = "done"
  /\ r_out' = [status |-> 500, samples |-> <<>>]

\* the response has been sent
RecordOnlyRespond ==
  /\ r_pc = "done"
  /\ r_pc' = "idle"
  /\ r_out' = NoRecording

InitRecordVars ==
  /\ r_pc = "idle"
  /\ r_out = NoRecording
  /\ n_legacy = 0

(***************************************************************************)
(* The specifications                                                      *)
(***************************************************************************)
vars == <<fetchVars, encryptVars, decryptVars, sessionVars, recordVars>>

\* the session at rest, for the specifications that leave it alone
InitSessionIdle == InitSessionVars /\ InitRecordVars /\ handlers = {}

InitFetch == InitFetchVars /\ InitCipherVars /\ InitSessionIdle

NextFetch ==
  \/ FetchDirectCall /\ UNCHANGED <<encryptVars, decryptVars, sessionVars, recordVars>>
  \/ FetchAttempt /\ UNCHANGED <<encryptVars, decryptVars, sessionVars, recordVars>>
  \/ FetchFallback /\ UNCHANGED <<encryptVars, decryptVars, sessionVars, recordVars>>
  \/ FetchDirectReturn /\ UNCHANGED <<encryptVars, decryptVars, sessionVars, recordVars>>

SpecFetch == InitFetch /\ [][NextFetch]_vars

InitCipher == InitFetchVars /\ InitCipherVars /\ InitSessionIdle

NextCipher ==
  \/ EncryptRequest /\ UNCHANGED <<decryptVars, sessionVars, recordVars>>
  \/ FetchAttempt /\ UNCHANGED <<encryptVars, decryptVars, sessionVars, recordVars>>
  \/ FetchFallback /\ UNCHANGED <<encryptVars, decryptVars, sessionVars, recordVars>>
  \/ EncryptFinish /\ UNCHANGED <<decryptVars, sessionVars, recordVars>>
  \/ EncryptRespond /\ UNCHANGED <<fetchVars, decryptVars, sessionVars, recordVars>>
  \/ DecryptAudio /\ UNCHANGED <<fetchVars, encryptVars, sessionVars, recordVars>>
  \/ DecryptRespond /\ UNCHANGED <<fetchVars, encryptVars, sessionVars, recordVars>>

SpecCipher == InitCipher /\ [][NextCipher]_vars

\* decrypt requests alone, with payloads and metadata of every kind
InitResolver == InitFetchVars /\ InitCipherVars /\ InitSessionIdle

NextResolver ==
  \/ ResolveAudio /\ UNCHANGED <<fetchVars, encryptVars, sessionVars, recordVars>>
  \/ DecryptRespond /\ UNCHANGED <<fetchVars, encryptVars, sessionVars, recordVars>>

SpecResolver == InitResolver /\ [][NextResolver]_vars

cipherIdle == UNCHANGED <<fetchVars, encryptVars, decryptVars, recordVars>>

NextSession ==
  \/ (\E h \in Handlers : StartCall(h)) /\ cipherIdle
  \/ (\E h \in Handlers : StartClearCheck(h)) /\ cipherIdle
  \/ (\E h \in Handlers : StartClearGet(h)) /\ cipherIdle
  \/ (\E h \in Handlers : StartSet(h)) /\ cipherIdle
  \/ (\E h \in Handlers : StartSpawn(h)) /\ cipherIdle
  \/ (\E h \in Handlers : StartSpawnFails(h)) /\ cipherIdle
  \/ (\E h \in Handlers : StopCall(h)) /\ cipherIdle
  \/ (\E h \in Handlers : StopSet(h)) /\ cipherIdle
  \/ (\E h \in Handlers : StopSleep(h)) /\ cipherIdle
  \/ (\E h \in Handlers : StopDrainCheck(h)) /\ cipherIdle
  \/ (\E h \in Handlers : StopDrainGet(h)) /\ cipherIdle
  \/ (\E h \in Handlers : HandlerReturn(h)) /\ cipherIdle
  \/ (\E t \in Threads : ThreadOpen(t)) /\ cipherIdle
  \/ (\E t \in Threads : ThreadExit(t)) /\ cipherIdle
  \/ (\E t \in Threads : CallbackCheck(t)) /\ cipherIdle
  \/ (\E t \in Threads : CallbackPut(t)) /\ cipherIdle

\* requests served one at a time: one request thread
InitSession ==
  /\ InitFetchVars /\ InitCipherVars /\ InitSessionVars /\ InitRecordVars
  /\ handlers = {1}

SpecSession == InitSession /\ [][NextSession]_vars

\* requests served concurrently (the development server is threaded)
InitSessionC ==
  /\ InitFetchVars /\ InitCipherVars /\ InitSessionVars /\ InitRecordVars
  /\ handlers = Handlers

SpecSessionC == InitSessionC /\ [][NextSession]_vars

\* what a request thread does by itself once it has taken a request: every
\* statement of its handler but the arrival of the request
HandlerStep(h) ==
  /\ \/ StartClearCheck(h) \/ StartClearGet(h) \/ StartSet(h)
     \/ StartSpawn(h) \/ StartSpawnFails(h)
     \/ StopSet(h) \/ StopSleep(h) \/ StopDrainCheck(h) \/ StopDrainGet(h)
     \/ HandlerReturn(h)
  /\ cipherIdle

\* what a recorder thread and its stream do by themselves: open the stream,
\* finish a callback that is past its test, leave when the flag is down.
\* (Whether the device delivers another chunk is up to the device.)
ThreadStep(t) ==
  /\ ThreadOpen(t) \/ ThreadExit(t) \/ CallbackPut(t)
  /\ cipherIdle

\* concurrent requests under a fair scheduler: a thread that can take its
\* next step, and stays able to, takes it (time.sleep returns, a get() on a
\* queue that holds a chunk returns)
SpecSessionCFair ==
  /\ InitSessionC
  /\ [][NextSession]_vars
  /\ \A h \in Handlers : WF_vars(HandlerStep(h))
  /\ \A t \in Threads : WF_vars(ThreadStep(t))

\* a legacy handler that empties the session's queue
LegacyFrame_ClearsQueue ==
  /\ audio_queue' = <<>>
  /\ UNCHANGED <<recording_active, handlers, h_pc, h_op, h_chunks, h_thread,
                 h_resp, t_pc, cb_pc, cb_chunk, n_starts, n_stops, n_chunks,
                 put_log, session_mark, h_entry_active>>

\* record_audio_only, encrypt_audio, decrypt_audio and fetch_quantum_key
\* (lines 35-61 and 179-522) name neither recording_active nor audio_queue
\* and call nothing that does
LegacyFrame == UNCHANGED sessionVars

\* a legacy request arrives
LegacyArrives == n_legacy < MaxLegacy /\ n_legacy' = n_legacy + 1

\* the legacy requests made beside a session: an encrypt request without
\* payload or with one of 17 bytes, a decrypt request without fields or
\* with the ciphertext of one double
LegacyEncryptRequests ==
  {req \in EncryptRequests : ~req.present \/ Len(req.audio) = BlockSize + 1}

LegacyDecryptRequests ==
  {NoRequest}
  \cup {req \in ResolverRequests :
          req.metadata = NoMetadata /\ Len(req.encrypted_data) = 16}

LegacyEncrypt == \E req \in LegacyEncryptRequests : EncryptBegin(req)

LegacyDecrypt ==
  /\ e_pc = "idle"
  /\ d_status = 0
  /\ \E req \in LegacyDecryptRequests : DecryptRequest(req)

\* the legacy operations beside a session whose requests are served one at
\* a time: every step of either may come between two steps of the other
InitLegacy ==
  /\ InitFetchVars /\ InitCipherVars /\ InitSessionVars /\ InitRecordVars
  /\ handlers = {1}

NextLegacy ==
  \/ NextSession /\ n_chunks' <= LegacyChunks
  \/ RecordOnlyBegin /\ LegacyArrives /\ LegacyFrame
       /\ UNCHANGED <<fetchVars, encryptVars, decryptVars>>
  \/ RecordOnlyFinish /\ LegacyFrame
       /\ UNCHANGED <<fetchVars, encryptVars, decryptVars, n_legacy>>
  \/ RecordOnlyFails /\ LegacyFrame
       /\ UNCHANGED <<fetchVars, encryptVars, decryptVars, n_legacy>>
  \/ RecordOnlyRespond /\ LegacyFrame
       /\ UNCHANGED <<fetchVars, encryptVars, decryptVars, n_legacy>>
  \/ LegacyEncrypt /\ LegacyArrives /\ LegacyFrame
       /\ UNCHANGED <<decryptVars, r_pc, r_out>>
  \/ FetchAttempt /\ LegacyFrame
       /\ UNCHANGED <<encryptVars, decryptVars, recordVars>>
  \/ FetchFallback /\ LegacyFrame
       /\ UNCHANGED <<encryptVars, decryptVars, recordVars>>
  \/ EncryptFinish /\ LegacyFrame /\ UNCHANGED <<decryptVars, recordVars>>
  \/ EncryptRespond /\ LegacyFrame
       /\ UNCHANGED <<fetchVars, decryptVars, recordVars>>
  \/ LegacyDecrypt /\ LegacyArrives /\ LegacyFrame
       /\ UNCHANGED <<fetchVars, encryptVars, r_pc, r_out>>
  \/ DecryptRespond /\ LegacyFrame
       /\ UNCHANGED <<fetchVars, encryptVars, recordVars>>

SpecLegacy == InitLegacy /\ [][NextLegacy]_vars

(***************************************************************************)
(* Claims about fetch_quantum_key                                          *)
(***************************************************************************)

\* C1: fetch(size, retries) returns exactly `size` bytes whatever the remote
\* endpoint does; a response that reports success with another number of
\* values is not accepted.
C1_ReturnsSizeBytes ==
  f_pc = "returned" => Len(f_result) = f_size

\* C2: fetch never surfaces an error: no exception leaves the function, and
\* when all `retries` attempts have failed (also when retries = 0) the value
\* returned is the local fallback's, of `size` bytes.
C2_NeverRaises ==
  /\ f_pc # "raised"
  /\ (f_pc = "returned" /\ f_source # "remote")
        => /\ f_source = "local"
           /\ f_attempt = f_retries
           /\ Len(f_result) = f_size
  /\ (f_pc = "loop" /\ f_attempt >= f_retries) => ENABLED FetchFallback

\* three attempts failed and the fallback's bytes were returned
C2_Witness ==
  /\ f_pc = "returned"
  /\ f_source = "local"
  /\ f_retries = DefaultRetries
  /\ f_attempt = f_retries
  /\ f_size = KeySize

\* C16: fetch(size, retries) calls the remote endpoint one attempt at a time
\* and at most `retries` times; it stops at the first accepted response, makes
\* no remote call after it and returns that response's bytes unchanged; the
\* local fallback is used only after all `retries` attempts have failed.
C16_AttemptsThenFallback ==
  [][/\ f_pc' # "idle" => f_attempt' <= f_retries'
     /\ (f_pc # "idle" /\ f_pc' # "idle" /\ f_attempt' # f_attempt)
          => /\ f_attempt' = f_attempt + 1
             /\ f_pc = "loop"
             /\ f_source = "none"
             /\ f_accepted = NoResponse
     /\ (f_source = "none" /\ f_source' = "remote")
          => /\ f_pc' = "returned"
             /\ f_attempt' = f_attempt + 1
             /\ f_accepted'.kind = "success"
             /\ f_result' = f_accepted'.data
     /\ (f_source = "remote" /\ f_pc' # "idle")
          => UNCHANGED <<f_attempt, f_result, f_accepted, f_source, n_urandom>>
     /\ (f_source = "none" /\ f_source' = "local")
          => /\ f_attempt = f_retries
             /\ f_accepted = NoResponse
             /\ UNCHANGED f_attempt
     /\ n_urandom' # n_urandom => (f_source = "none" /\ f_source' = "local")
    ]_vars

\* the first attempt failed, the second was accepted with one attempt left
C16_Witness ==
  /\ f_pc = "returned"
  /\ f_source = "remote"
  /\ f_retries = DefaultRetries
  /\ f_attempt = 2
  /\ f_size = KeySize
  /\ f_result = Rep(KeySize, 7)

(***************************************************************************)
(* Claims about encrypt_audio and decrypt_audio                            *)
(***************************************************************************)

\* the decrypt request being answered carries the ciphertext and the key
\* that the i-th successful encryption returned
DecryptsEncryption(i) ==
  /\ d_status # 0
  /\ d_req.has_data
  /\ d_req.has_key
  /\ d_req.encrypted_data = enc_log[i].out.encrypted_data
  /\ d_req.aes_key = enc_log[i].out.aes_key

\* C3: decrypting, with the same key, the ciphertext that encrypt produced
\* for a plaintext p gives back exactly p, for every plaintext length
\* (empty, shorter than a block, not block-aligned, block-aligned).
C3_RoundTrip ==
  \A i \in DOMAIN enc_log :
    DecryptsEncryption(i) => d_cipher /\ d_plain = enc_log[i].plaintext

\* a 17-byte plaintext encrypted under a 32-byte key has been decrypted
C3_Witness ==
  \E i \in DOMAIN enc_log :
    /\ DecryptsEncryption(i)
    /\ Len(enc_log[i].plaintext) = BlockSize + 1
    /\ Len(enc_log[i].key) = KeySize
    /\ d_plain = enc_log[i].plaintext

\* C4: a key whose length is not 32 bytes is fatal: encrypt or decrypt given
\* such a key answers with an error and produces no ciphertext and no
\* plaintext; no cipher is made for it.
C4_WrongKeyLengthIsFatal ==
  /\ (/\ d_status # 0
      /\ d_req.has_data
      /\ d_req.has_key
      /\ ~FromHexRaises(d_req.encrypted_data)
      /\ ~FromHexRaises(d_req.aes_key)
      /\ Len(HexDecode(d_req.aes_key)) # KeySize)
     => (d_status >= 400 /\ ~d_cipher /\ d_plain = <<>>)
  /\ (e_pc = "done" /\ e_status # 400 /\ Len(e_key) # KeySize)
     => (e_status = 500 /\ e_out = NoOutput)

\* C5: no two encrypt operations on distinct plaintexts use the same key,
\* whatever the remote endpoint answers.
C5_NoKeyReuse ==
  \A i, j \in DOMAIN enc_log :
    enc_log[i].plaintext # enc_log[j].plaintext
      => enc_log[i].key # enc_log[j].key

\* C17: for every plaintext length, multiples of the block size or not, the
\* ciphertext encrypt produces has exactly the plaintext's length (no
\* padding), and the hex string returned has exactly twice that length.
C17_CiphertextLength ==
  (e_pc = "done" /\ e_status = 200)
    => /\ Len(EncryptBytes(e_key, e_req.audio)) = Len(e_req.audio)
       /\ e_out.encrypted_data = HexEncode(EncryptBytes(e_key, e_req.audio))
       /\ Len(HexDecode(e_out.encrypted_data)) = Len(e_req.audio)
       /\ Len(e_out.encrypted_data) = 2 * Len(e_req.audio)

\* a plaintext one byte longer than a block was encrypted
C17_Witness ==
  /\ e_pc = "done"
  /\ e_status = 200
  /\ Len(e_req.audio) = BlockSize + 1
  /\ Len(e_out.encrypted_data) = 2 * BlockSize + 2

(***************************************************************************)
(* Claims about the recording session                                      *)
(***************************************************************************)

\* the chunks put on the queue since the last start() found it empty
SessionChunks == SubSeq(put_log, session_mark + 1, Len(put_log))

\* C6: for one start()/stop() session (requests served one at a time), the
\* buffer stop() returns is the concatenation, in the order they were put
\* on the queue, of the chunks the callbacks put there during the session:
\* none reordered, dropped or duplicated.
C6_BufferIsQueueOrder ==
  [][\A h \in Handlers :
       (h_pc[h] = "stop_drain" /\ h_pc'[h] = "done")
         => h_resp'[h].samples = Concatenate(SessionChunks)]_vars

\* stop() has returned a buffer made of at least two chunks
C6_Witness ==
  \E h \in Handlers :
    /\ h_op[h] = "stop"
    /\ h_pc[h] = "done"
    /\ h_resp[h].status = 200
    /\ Len(h_chunks[h]) >= 2
    /\ Len(h_resp[h].samples) = FramesPerChunk * Len(h_chunks[h])

\* the recorder threads that have not left their loop
AliveThreads == {t \in Threads : t_pc[t] \in {"starting", "streaming"}}

\* C7: whenever the session is Recording exactly one producer thread runs
\* for it, and two or more are never alive at the same time.
C7_OneProducer ==
  /\ Cardinality(AliveThreads) <= 1
  /\ (recording_active /\ \A h \in Handlers : h_pc[h] # "start_spawn")
       => Cardinality(AliveThreads) = 1

\* C8: a start() invoked while the session is Recording is answered with a
\* conflict (a client error); it does not go on to clear the queue, and it
\* starts no thread.
C8_StartWhileRecordingRejected ==
  \A h \in Handlers :
    (h_op[h] = "start" /\ h_entry_active[h] /\ h_pc[h] = "done")
      => h_resp[h].status \in {400, 409} /\ h_thread[h] = 0

\* C9: stop() called while the session is Idle is rejected at once (no wait,
\* no drain) and the rejection leaves recording_active and the queue as
\* they were.
C9_StopWhileIdleRejected ==
  [][\A h \in Handlers :
       (h_pc[h] = "idle" /\ h_op'[h] = "stop" /\ ~recording_active)
         => /\ h_pc'[h] = "done"
            /\ h_resp'[h].status = 400
            /\ h_resp'[h].error = "Recording was not active"
            /\ h_resp'[h].samples = <<>>
            /\ h_chunks'[h] = <<>>
            /\ recording_active' = recording_active
            /\ audio_queue' = audio_queue]_vars

\* a stop() was rejected while a late chunk was waiting in the queue
C9_Witness ==
  \E h \in Handlers :
    /\ h_op[h] = "stop"
    /\ h_pc[h] = "done"
    /\ ~h_entry_active[h]
    /\ h_resp[h].status = 400
    /\ audio_queue # <<>>

\* C10: start() followed by stop() with no chunk put on the queue in between
\* yields the failure "No audio data recorded" (status 400, not a crash), no
\* samples, and leaves the session Idle.
C10_NoDataCaptured ==
  \A h \in Handlers :
    (/\ h_op[h] = "stop"
     /\ h_pc[h] = "done"
     /\ h_entry_active[h]
     /\ SessionChunks = <<>>)
    => /\ h_resp[h].status = 400
       /\ h_resp[h].error = "No audio data recorded"
       /\ h_resp[h].samples = <<>>
       /\ ~recording_active

\* stop() right after start(): the recorder thread is still there
C10_Witness ==
  \E h \in Handlers :
    /\ h_op[h] = "stop"
    /\ h_pc[h] = "done"
    /\ h_entry_active[h]
    /\ put_log = <<>>
    /\ h_resp[h].error = "No audio data recorded"
    /\ AliveThreads # {}


\* a stop() that passed the test of line 119
PassedCheck(h) == h_op[h] = "stop" /\ h_entry_active[h]

\* C18: stop() starts draining the queue only after the producer thread has
\* been confirmed to have exited: no producer callback can enqueue a chunk
\* while stop() is draining or after its drain has finished.
C18_DrainAfterProducerExit ==
  [][\A h \in Handlers :
       /\ (PassedCheck(h) /\ h_pc[h] = "stop_sleep" /\ h_pc'[h] = "stop_drain")
            => \A t \in Threads : t_pc[t] \in {"none", "exited"}
       /\ (PassedCheck(h) /\ h_pc[h] \in {"stop_drain", "stop_get", "done"})
            => Len(put_log') = Len(put_log)
    ]_vars

\* C19: stop() blocks only for a bounded time: under any interleaving with
\* other start()/stop() requests and producer callbacks, every stop() that
\* passed the Recording check eventually returns (its grace wait ends and
\* its drain loop never blocks forever on the queue).
C19_StopReturns ==
  \A h \in Handlers :
    (PassedCheck(h) /\ h_pc[h] = "stop_set") ~> (h_pc[h] = "done")

\* C20: the state check and the state change of stop() are atomic with
\* respect to other requests: of two stop() requests running concurrently on
\* one Recording session (one start() so far), at most one passes the
\* Recording check and drains the queue; the other is rejected.
C20_CheckAndSetAtomic ==
  n_starts = 1 => Cardinality({h \in Handlers : PassedCheck(h)}) <= 1

\* C21: after stop() has signalled the producer through the flag, the
\* producer thread eventually observes the signal and exits, whatever
\* start()/stop() requests follow: no producer thread keeps running for ever
\* after its session was stopped.
C21_ProducerExits ==
  \A t \in Threads :
    (t_pc[t] \in {"starting", "streaming"} /\ ~recording_active)
      ~> (t_pc[t] = "exited")

\* C25: a buffer returned by stop() contains only chunks delivered by the
\* producer of the matching start() (with requests served one at a time,
\* the thread of the latest start()): no chunk of an earlier session's
\* producer appears in a later session's buffer.
C25_OnlyOwnChunks ==
  \A h \in Handlers :
    (h_op[h] = "stop" /\ h_pc[h] = "done" /\ h_resp[h].status = 200)
      => \A i \in DOMAIN h_resp[h].samples :
           h_resp[h].samples[i].producer = n_starts

\* C26: whenever the session is Idle and no request is in progress, the
\* chunk queue is empty: after stop() has returned no chunk remains in the
\* queue and none is enqueued until the next start().
C26_IdleQueueEmpty ==
  [][/\ \A h \in Handlers :
          (PassedCheck(h) /\ h_pc[h] = "done" /\ h_pc'[h] = "idle"
             /\ ~recording_active')
            => audio_queue' = <<>>
     /\ (~recording_active /\ n_stops > 0
           /\ \A h \in Handlers : h_pc[h] = "idle")
          => audio_queue' = audio_queue
    ]_vars

\* C27: the legacy capture, encrypt and decrypt operations never read or
\* write the session's active flag or chunk queue: a step of any of them, in
\* any interleaving with start()/stop(), leaves the flag, the queue and the
\* rest of the session's state as they were.
C27_LegacyLeavesSession ==
  [][<<fetchVars, encryptVars, decryptVars, recordVars>>'
        # <<fetchVars, encryptVars, decryptVars, recordVars>>
       => /\ recording_active' = recording_active
          /\ audio_queue' = audio_queue
          /\ UNCHANGED sessionVars]_vars

\* a legacy capture was answered while the session was Recording with a
\* chunk in the queue
C27_Witness ==
  /\ r_pc = "done"
  /\ r_out.status = 200
  /\ recording_active
  /\ audio_queue # <<>>
  /\ \E h \in Handlers : h_pc[h] = "stop_set"

(***************************************************************************)
(* Claims about the format resolver and the container (decrypt_audio)      *)
(***************************************************************************)

\* the request being answered got as far as the resolver
Resolved == d_status # 0 /\ d_cipher

\* the request's metadata sends the resolver down the float64-with-shape path
MetadataFloat64 ==
  d_req.metadata.data_type = "float64" /\ d_req.metadata.shape # <<>>

\* the bit pattern of 1e10, 0x4202A05F20000000, lowest byte first
ThresholdBits == <<0, 0, 0, 32, 95, 160, 2, 66>>

\* whether the double with bytes p has a magnitude below the double with
\* bytes q: positive doubles are ordered as their bit patterns are
RECURSIVE BitsBelow(_, _, _)
BitsBelow(p, q, i) ==
  IF i = 0 THEN FALSE
  ELSE LET a == IF i = 8 THEN p[i] % 128 ELSE p[i]
           b == IF i = 8 THEN q[i] % 128 ELSE q[i]
       IN a < b \/ (a = b /\ BitsBelow(p, q, i - 1))

\* the bytes are a non-empty array of doubles, each of magnitude below 1e10
PlausibleDoubles(bytes) ==
  /\ bytes # <<>>
  /\ Len(bytes) % 8 = 0
  /\ \A i \in 1..(Len(bytes) \div 8) :
       BitsBelow(SubSeq(bytes, 8 * i - 7, 8 * i), ThresholdBits, 8)

\* C11: without usable metadata the resolver probes in the fixed order
\* float64, int16, uint8; float64 is accepted when the result is non-empty
\* and its maximum magnitude is below 1e10; int16 runs only if float64 was
\* not accepted, uint8 only if int16 was not, and the accepted
\* interpretation is the last one run.
C11_ProbingOrder ==
  (Resolved /\ ~MetadataFloat64) =>
    /\ d_tried \in {<<"float64">>, <<"float64", "int16">>,
                    <<"float64", "int16", "uint8">>}
    /\ d_accepted = d_tried[Len(d_tried)]
    /\ PlausibleDoubles(d_plain) => d_tried = <<"float64">>
    /\ Len(d_tried) >= 2 => ~PlausibleDoubles(d_plain)
    /\ Len(d_tried) = 3 => (d_plain = <<>> \/ Len(d_plain) % 2 = 1)

\* doubles of which one is 2^40 were refused as float64 and taken as int16
C11_Witness ==
  /\ Resolved
  /\ ~MetadataFloat64
  /\ d_plain = FloatPayloads.huge \o FloatPayloads.half
  /\ d_tried = <<"float64", "int16">>
  /\ d_accepted = "int16"
  /\ Len(d_signal) = 8

\* C12: with metadata float64 and a shape, and at least product(shape) * 8
\* decrypted bytes, only the leading product(shape) * 8 bytes are read, as
\* float64; no other interpretation runs; the container holds exactly
\* product(shape) frames at the metadata's sample rate.
C12_MetadataFloat64 ==
  LET n == Prod(d_req.metadata.shape) IN
  (Resolved /\ MetadataFloat64 /\ Len(d_plain) >= n * 8) =>
    /\ d_tried = <<"meta_float64">>
    /\ d_accepted = "meta_float64"
    /\ n > 0 => d_signal = PostProcess(AsFloat64(SubSeq(d_plain, 1, n * 8)))
    /\ (n > 0 /\ d_req.metadata.sample_rate > 0) => d_wav.present
    /\ d_wav.present => /\ Len(d_wav.frames) = n
                        /\ d_wav.rate = d_req.metadata.sample_rate

\* 18 bytes decrypted with metadata float64, shape [1]: one frame
C12_Witness ==
  /\ Resolved
  /\ d_req.metadata.data_type = "float64"
  /\ d_req.metadata.shape = <<1>>
  /\ Len(d_plain) = 18
  /\ d_wav.present
  /\ Len(d_wav.frames) = 1
  /\ d_wav.rate = 8000

\* C13: every sample handed to the container codec lies in [-1.0, 1.0],
\* whichever interpretation was accepted.
C13_SamplesInUnitRange ==
  \A i \in DOMAIN d_signal :
    d_signal[i].cls = "fin" /\ ~AbsGt(d_signal[i], One)

\* C14: decrypting an empty payload, with or without metadata, ends in a
\* reported failure; no container without frames is ever returned.
C14_EmptyPayloadFails ==
  /\ (Resolved /\ d_plain = <<>>) => (d_status = 500 /\ ~d_wav.present)
  /\ d_wav.present => d_wav.frames # <<>>

\* an empty payload went through the three probes and was answered with 500
C14_Witness ==
  /\ Resolved
  /\ d_plain = <<>>
  /\ d_req.encrypted_data = <<>>
  /\ d_tried = <<"float64", "int16", "uint8">>
  /\ d_status = 500

\* a hex string bytes.fromhex does not take
NotHex(h) == Len(h) % 2 = 1 \/ \E i \in DOMAIN h : h[i] \notin 0..15

\* C15: a decrypt request with a missing ciphertext or key, or with one that
\* is not valid hex, is answered with an error before a cipher is made or a
\* byte decrypted or interpreted; an encrypt request without audio payload
\* is answered with an error before fetch_quantum_key is called.
C15_InvalidInputFirst ==
  [][/\ (d_status = 0 /\ d_status' # 0
           /\ (~d_req'.has_data \/ ~d_req'.has_key
                 \/ NotHex(d_req'.encrypted_data) \/ NotHex(d_req'.aes_key)))
        => /\ d_status' = 400
           /\ ~d_cipher'
           /\ d_plain' = <<>>
           /\ d_tried' = <<>>
           /\ d_signal' = <<>>
           /\ ~d_wav'.present
     /\ (e_pc = "idle" /\ e_pc' # "idle" /\ ~e_req'.present)
        => /\ e_pc' = "done"
           /\ e_status' = 400
           /\ e_out' = NoOutput
           /\ UNCHANGED fetchVars]_vars

\* a valid ciphertext with a key that is not hex was answered with 400
C15_Witness ==
  /\ d_status = 400
  /\ d_req.has_data
  /\ d_req.has_key
  /\ ~NotHex(d_req.encrypted_data)
  /\ d_req.encrypted_data # <<>>
  /\ NotHex(d_req.aes_key)
  /\ ~d_cipher

\* C22: when metadata declares float64 with a shape and the decrypted bytes
\* number fewer than product(shape) * 8, the whole buffer is interpreted as
\* float64, without reshape, and gives a sample buffer, for every byte
\* length (of a non-empty buffer); int16 and uint8 are never probed.
C22_MetadataFallback ==
  (/\ Resolved
   /\ MetadataFloat64
   /\ d_plain # <<>>
   /\ Len(d_plain) < Prod(d_req.metadata.shape) * 8)
    => /\ d_tried = <<"meta_float64", "fallback_float64">>
       /\ d_accepted = "fallback_float64"
       /\ d_signal # <<>>

\* the float64 reading of the decrypted bytes is refused as implausible:
\* whole doubles, at least one, none a NaN, one of magnitude above 1e10
\* (by the bit patterns, as in PlausibleDoubles)
ImplausibleDoubles(bytes) ==
  /\ bytes # <<>>
  /\ Len(bytes) % 8 = 0
  /\ \A i \in 1..(Len(bytes) \div 8) :
       BitsBelow(SubSeq(bytes, 8 * i - 7, 8 * i), <<1, 0, 0, 0, 0, 0, 240, 127>>, 8)
  /\ \E i \in 1..(Len(bytes) \div 8) :
       BitsBelow(ThresholdBits, SubSeq(bytes, 8 * i - 7, 8 * i), 8)

\* C23: whenever the float64 interpretation of non-empty decrypted bytes is
\* refused as implausible (maximum magnitude above 1e10), the int16
\* interpretation is accepted and gives a valid non-empty buffer, one sample
\* per two bytes, each in [-1, 1]; uint8 is never reached.
C23_ImplausibleFallsToInt16 ==
  (Resolved /\ ~MetadataFloat64 /\ ImplausibleDoubles(d_plain))
    => /\ d_tried = <<"float64", "int16">>
       /\ d_accepted = "int16"
       /\ Len(d_signal) = Len(d_plain) \div 2
       /\ \A i \in DOMAIN d_signal :
            d_signal[i].cls = "fin" /\ ~AbsGt(d_signal[i], One)
       /\ d_req.metadata.sample_rate > 0
            => /\ d_status = 200
               /\ d_wav.present
               /\ Len(d_wav.frames) = Len(d_signal)

\* +Inf and 0.5 were refused as float64 and read as eight int16 values
C23_Witness ==
  /\ Resolved
  /\ ~MetadataFloat64
  /\ d_plain = FloatPayloads.inf \o FloatPayloads.half
  /\ d_accepted = "int16"
  /\ d_wav.present
  /\ Len(d_wav.frames) = 8

\* whether the integer q is a nearest integer to x * 32767, for a finite
\* sample x = +-(num / den) * 2^e of magnitude at most 1:
\* 2 * |q * D - N| <= D where |x| * 32767 = N / D
IsNearest(q, x) ==
  LET a == IF x.neg THEN -q ELSE q
      n == IF x.e >= 0 THEN x.num * 32767 * (2 ^ x.e) ELSE x.num * 32767
      d == IF x.e >= 0 THEN x.den ELSE x.den * (2 ^ (-x.e))
      diff == IF a * d >= n THEN a * d - n ELSE n - a * d
  IN IF x.num = 0 THEN q = 0
     ELSE IF x.e < -16 THEN q = 0
     ELSE 2 * diff <= d

\* C24: the codec quantizes each normalized sample s in [-1.0, 1.0] to the
\* 16-bit signed integer round(s * 32767), the nearest integer, and the
\* result lies in the signed 16-bit range.
C24_QuantizeRounds ==
  d_wav.present =>
    \A i \in DOMAIN d_signal :
      (d_signal[i].cls = "fin" /\ ~AbsGt(d_signal[i], One))
        => /\ d_wav.frames[i] \in -32768..32767
           /\ IsNearest(d_wav.frames[i], d_signal[i])

=============================================================================
